---- MODULE Spec2Model ----
(***************************************************************************)
(* Directory-priority scheduling core of the vivbliss scraper              *)
(* (vivbliss_scraper/utils/priority_scheduler.py): DirectoryTracker,       *)
(* PriorityRequestQueue and DirectoryPriorityScheduler.                    *)
(***************************************************************************)
EXTENDS Integers, Sequences, FiniteSets, TLC

\* ------------------------------------------------------------------ bounds
\* number of calls made on one scheduler instance
MaxOps == 5

\* ------------------------------------------------------------ input domains
None == "None"
Paths == {"/a", "/b"}
\* two of the URLs differ only by their fragment
Urls == {"p1", "p1#f", "p2"}
Levels == {1, 2}

\* request_fingerprint(request): a digest of the canonical URL, which drops
\* the fragment, so distinct URLs can share one fingerprint
request_fingerprint(url) ==
    IF url = "p1#f" THEN "fp_p1" ELSE IF url = "p1" THEN "fp_p1" ELSE "fp_p2"

VARIABLES
    directories,            \* DirectoryTracker.directories: path -> info
    dirOrder,               \* insertion order of the keys of directories
    directory_products,     \* DirectoryTracker.directory_products
    completed_directories,  \* DirectoryTracker.completed_directories
    active_directories,     \* DirectoryTracker.active_directories
    discovered_products,    \* DirectoryTracker.discovered_products: url -> path
    completed_products,     \* DirectoryTracker.completed_products
    failed_products,        \* DirectoryTracker.failed_products
    stats,                  \* DirectoryTracker.stats
    category_requests,      \* PriorityRequestQueue.category_requests
    product_requests,       \* PriorityRequestQueue.product_requests: path -> deque
    productKeys,            \* insertion order of the keys of product_requests
    other_requests,         \* PriorityRequestQueue.other_requests
    seen_requests,          \* PriorityRequestQueue.seen_requests
    current_priority_directory,
    scheduler_enabled,
    returned,               \* history: requests handed out by get_next_request
    admitted,               \* history: requests for which an add_* returned True
    reproposed,             \* history: fingerprints rejected by an add_* after the
                            \*   admitted copy had been handed out
    reportCalls,            \* history: accepted reports per product URL
    ignored,                \* history: some report named an unknown product
    ops                     \* history: number of calls made so far

trackerVars == <<directories, dirOrder, directory_products, completed_directories,
                 active_directories, discovered_products, completed_products,
                 failed_products, stats>>
queueVars == <<category_requests, product_requests, productKeys, other_requests,
               seen_requests>>
schedVars == <<current_priority_directory, scheduler_enabled>>
histVars == <<returned, admitted, reproposed, reportCalls, ignored, ops>>
vars == <<trackerVars, queueVars, schedVars, histVars>>

\* ----------------------------------------------------------------- helpers
RECURSIVE SumOver(_, _)
SumOver(f, S) ==
    IF S = {} THEN 0
    ELSE LET x == CHOOSE y \in S : TRUE IN f[x] + SumOver(f, S \ {x})

Max(a, b) == IF a >= b THEN a ELSE b

IndexOf(seq, x) == CHOOSE i \in 1..Len(seq) : seq[i] = x

Registered == DOMAIN directories

\* ------------------------------------------------------- DirectoryTracker
\* variant: the record of a known path is written again
add_directory_overwrite(dirs, path, lvl) ==
    [p \in DOMAIN dirs \cup {path} |->
        IF p = path
        THEN [level |-> lvl, products_completed |-> 0, status |-> "discovered"]
        ELSE dirs[p]]

\* variant: the level of directory_info is not read, a new path gets level 2
add_directory_level_two(dirs, path, lvl) ==
    IF path \in DOMAIN dirs THEN dirs
    ELSE [p \in DOMAIN dirs \cup {path} |->
            IF p = path
            THEN [level |-> 2, products_completed |-> 0, status |-> "discovered"]
            ELSE dirs[p]]

\* variant: a known path is set back to discovered
add_directory_reopen(dirs, path, lvl) ==
    IF path \in DOMAIN dirs THEN [dirs EXCEPT ![path].status = "discovered"]
    ELSE [p \in DOMAIN dirs \cup {path} |->
            IF p = path
            THEN [level |-> lvl, products_completed |-> 0, status |-> "discovered"]
            ELSE dirs[p]]

\* add_directory: a no-op for a known path
add_directory(dirs, path, lvl) ==
    IF path \in DOMAIN dirs THEN dirs
    ELSE [p \in DOMAIN dirs \cup {path} |->
            IF p = path
            THEN [level |-> lvl, products_completed |-> 0, status |-> "discovered"]
            ELSE dirs[p]]

add_directory_order(dirs, order, path) ==
    IF path \in DOMAIN dirs THEN order ELSE Append(order, path)

\* add_directory: stats['directories_discovered'] += 1 for a new path
add_directory_stats(dirs, st, path) ==
    IF path \in DOMAIN dirs THEN st
    ELSE [st EXCEPT !.directories_discovered = @ + 1]

\* is_directory_completed
is_directory_completed(path) == path \in completed_directories

\* failed_count of _check_directory_completion / get_directory_progress
failed_count(failed, owner, path) ==
    Cardinality({u \in failed : owner[u] = path})

\* variant: the comparison counts one product too many as done
completion_reached_early(dirs, prods, failed, owner, path) ==
    LET total == Cardinality(prods[path]) IN
        /\ dirs[path].products_completed + failed_count(failed, owner, path) + 1 >= total
        /\ total > 0

\* variant: strict comparison
completion_reached_strict(dirs, prods, failed, owner, path) ==
    LET total == Cardinality(prods[path]) IN
        /\ dirs[path].products_completed + failed_count(failed, owner, path) > total
        /\ total > 0

\* the condition tested by _check_directory_completion
completion_reached(dirs, prods, failed, owner, path) ==
    LET total == Cardinality(prods[path]) IN
        /\ dirs[path].products_completed + failed_count(failed, owner, path) >= total
        /\ total > 0

\* get_directory_progress (completion_rate is kept as numerator / denominator)
get_directory_progress(path) ==
    LET total == Cardinality(directory_products[path])
        completed == directories[path].products_completed
        failed == failed_count(failed_products, discovered_products, path)
    IN  [total_products |-> total,
         completed_products |-> completed,
         failed_products |-> failed,
         remaining_products |-> total - completed - failed,
         rate_num |-> completed + failed,
         rate_den |-> Max(total, 1),
         status |-> directories[path].status,
         level |-> directories[path].level]

\* variant: completed directories are not filtered out of the candidates
BestCandidate_any ==
    LET best == {p \in Registered : \A q \in Registered : directories[p].level <= directories[q].level}
    IN  CHOOSE p \in best : \A q \in best : IndexOf(dirOrder, p) <= IndexOf(dirOrder, q)

\* variant: the sort is descending
BestCandidate_highest ==
    LET avail == {p \in Registered : p \notin completed_directories}
        best == {p \in avail : \A q \in avail : directories[p].level >= directories[q].level}
    IN  CHOOSE p \in best : \A q \in best : IndexOf(dirOrder, p) <= IndexOf(dirOrder, q)

\* variant: among the directories of lowest level the last inserted one wins
BestCandidate_latest ==
    LET avail == {p \in Registered : p \notin completed_directories}
        best == {p \in avail : \A q \in avail : directories[p].level <= directories[q].level}
    IN  CHOOSE p \in best : \A q \in best : IndexOf(dirOrder, p) >= IndexOf(dirOrder, q)

\* the list sort of get_next_priority_directory is stable: among the
\* directories of lowest level the first inserted one is selected
BestCandidate ==
    LET avail == {p \in Registered : p \notin completed_directories}
        best == {p \in avail : \A q \in avail : directories[p].level <= directories[q].level}
    IN  CHOOSE p \in best : \A q \in best : IndexOf(dirOrder, p) <= IndexOf(dirOrder, q)

\* variant: the active directory is not preferred, the best candidate is
\* selected afresh on every call
get_next_priority_directory_reselect ==
    IF Registered \ completed_directories = {}
    THEN {[ret |-> None, active |-> active_directories, dirs |-> directories]}
    ELSE LET avail == Registered \ completed_directories
             best == {p \in avail : \A q \in avail : directories[p].level <= directories[q].level}
             sel == CHOOSE p \in best : \A q \in best : IndexOf(dirOrder, p) <= IndexOf(dirOrder, q)
         IN  {[ret |-> sel,
               active |-> active_directories \cup {sel},
               dirs |-> [directories EXCEPT ![sel].status = "active"]]}

\* get_next_priority_directory: the possible outcomes, as
\* [ret, active, directories]; iteration over the active set has no fixed order
get_next_priority_directory ==
    LET live == {p \in active_directories : ~is_directory_completed(p)} IN
    IF live # {}
    THEN {[ret |-> p, active |-> active_directories, dirs |-> directories] : p \in live}
    ELSE IF Registered \ completed_directories = {}
    THEN {[ret |-> None, active |-> active_directories, dirs |-> directories]}
    ELSE LET sel == BestCandidate IN
         {[ret |-> sel,
           active |-> active_directories \cup {sel},
           dirs |-> [directories EXCEPT ![sel].status = "active"]]}

\* variant: every directory whose counters reach its total is completed,
\* without the test that it has products
check_directory_completion_sweep(dirs, cdirs, act, prods, failed, owner, st, path) ==
    LET done == {p \in DOMAIN dirs \ cdirs :
                    dirs[p].products_completed + failed_count(failed, owner, p)
                        >= Cardinality(prods[p])}
    IN  [completed |-> cdirs \cup done,
         active |-> act \ done,
         dirs |-> [p \in DOMAIN dirs |->
                     IF p \in done THEN [dirs[p] EXCEPT !.status = "completed"]
                     ELSE dirs[p]],
         stats |-> [st EXCEPT !.directories_completed = @ + Cardinality(done)]]

\* variant: a completed directory stays in the active set
check_directory_completion_keep_active(dirs, cdirs, act, prods, failed, owner, st, path) ==
    IF path \in cdirs
    THEN [completed |-> cdirs, active |-> act, dirs |-> dirs, stats |-> st]
    ELSE IF completion_reached(dirs, prods, failed, owner, path)
    THEN [completed |-> cdirs \cup {path},
          active |-> act,
          dirs |-> [dirs EXCEPT ![path].status = "completed"],
          stats |-> [st EXCEPT !.directories_completed = @ + 1]]
    ELSE [completed |-> cdirs, active |-> act, dirs |-> dirs, stats |-> st]

\* _check_directory_completion, as [completed, active, dirs, stats]
check_directory_completion(dirs, cdirs, act, prods, failed, owner, st, path) ==
    IF path \in cdirs
    THEN [completed |-> cdirs, active |-> act, dirs |-> dirs, stats |-> st]
    ELSE IF completion_reached(dirs, prods, failed, owner, path)
    THEN [completed |-> cdirs \cup {path},
          active |-> act \ {path},
          dirs |-> [dirs EXCEPT ![path].status = "completed"],
          stats |-> [st EXCEPT !.directories_completed = @ + 1]]
    ELSE [completed |-> cdirs, active |-> act, dirs |-> dirs, stats |-> st]

\* variant: the success is not counted
count_completed_lost(dirs, path) == dirs

\* mark_product_completed: the products_completed counter after the call
count_completed(dirs, path) ==
    [dirs EXCEPT ![path].products_completed = @ + 1]

\* variant: the failed set is overwritten
record_failed_overwrite(failed, url) == {url}

\* mark_product_failed: the failed set after the call
record_failed(failed, url) == failed \cup {url}

\* add_product_to_directory: membership and ownership after the call
join_directory(prods, path, url) == [prods EXCEPT ![path] = @ \cup {url}]
assign_owner(owner, path, url) == [owner EXCEPT ![url] = path]

\* variant: a product is looked up by the fingerprint of its URL
owner_of_fingerprint(owner, url) ==
    IF owner[url] # None THEN owner[url]
    ELSE IF \E v \in DOMAIN owner :
               request_fingerprint(v) = request_fingerprint(url) /\ owner[v] # None
    THEN owner[CHOOSE v \in DOMAIN owner :
               request_fingerprint(v) = request_fingerprint(url) /\ owner[v] # None]
    ELSE None

\* the lookup of mark_product_completed / mark_product_failed: the directory
\* recorded for product_url, None when product_url is not a key
owner_of(owner, url) == owner[url]

\* get_stats
get_stats ==
    [directories_discovered |-> stats.directories_discovered,
     directories_completed |-> stats.directories_completed,
     products_discovered |-> stats.products_discovered,
     products_completed |-> stats.products_completed,
     products_failed |-> stats.products_failed,
     active_directories |-> Cardinality(active_directories),
     completed_directories |-> Cardinality(completed_directories),
     remaining_directories |-> Cardinality(DOMAIN directories)
                                  - Cardinality(completed_directories)]

\* --------------------------------------------------- PriorityRequestQueue
Truthy(x) == x # None /\ x # ""

\* variant: the URL, not its fingerprint, is looked up
already_seen_url(seen, url) == url \in seen

\* variant: a product the registry knows counts as seen
already_seen_discovered(seen, url) ==
    request_fingerprint(url) \in seen \/ discovered_products[url] # None

\* the duplicate test of add_category_request / add_product_request /
\* add_other_request
already_seen(seen, url) == request_fingerprint(url) \in seen

\* variant: the URL is recorded in place of its fingerprint
remember_url(seen, url) == seen \cup {url}

\* variant: the fingerprint is not recorded
remember_forget(seen, url) == seen

\* self.seen_requests.add(fingerprint)
remember(seen, url) == seen \cup {request_fingerprint(url)}

\* variant: the deque of the directory is replaced by the new request
append_product_replace(preqs, path, url) ==
    [p \in DOMAIN preqs \cup {path} |-> IF p = path THEN <<url>> ELSE preqs[p]]

\* self.product_requests[directory_path].append(request)
append_product(preqs, path, url) ==
    [p \in DOMAIN preqs \cup {path} |->
        IF p = path
        THEN (IF p \in DOMAIN preqs THEN Append(preqs[p], url) ELSE <<url>>)
        ELSE preqs[p]]

append_key(preqs, keys, path) ==
    IF path \in DOMAIN preqs THEN keys ELSE Append(keys, path)

\* variant: the last key, in insertion order, is served
FallbackLane_last(preqs, keys, pd) ==
    LET idx == {i \in 1..Len(keys) : preqs[keys[i]] # <<>> /\ keys[i] # pd} IN
    IF idx = {} THEN None
    ELSE keys[CHOOSE i \in idx : \A j \in idx : i >= j]

\* step 3 of get_next_request: the first key, in insertion order, whose
\* deque is non-empty and which is not the priority directory
FallbackLane(preqs, keys, pd) ==
    LET idx == {i \in 1..Len(keys) : preqs[keys[i]] # <<>> /\ keys[i] # pd} IN
    IF idx = {} THEN None
    ELSE keys[CHOOSE i \in idx : \A j \in idx : i <= j]

\* variant: the category lane is served before the preferred product lane
queue_get_next_request_category_first(cat, preqs, keys, oth, pd) ==
    IF cat # <<>>
    THEN [ret |-> Head(cat), lane |-> "category", path |-> None,
          category |-> Tail(cat), product |-> preqs, other |-> oth]
    ELSE IF Truthy(pd) /\ pd \in DOMAIN preqs /\ preqs[pd] # <<>>
    THEN [ret |-> Head(preqs[pd]), lane |-> "priority", path |-> pd,
          category |-> cat, product |-> [preqs EXCEPT ![pd] = Tail(@)], other |-> oth]
    ELSE IF FallbackLane(preqs, keys, pd) # None
    THEN LET d == FallbackLane(preqs, keys, pd) IN
         [ret |-> Head(preqs[d]), lane |-> "fallback", path |-> d,
          category |-> cat, product |-> [preqs EXCEPT ![d] = Tail(@)], other |-> oth]
    ELSE IF oth # <<>>
    THEN [ret |-> Head(oth), lane |-> "other", path |-> None,
          category |-> cat, product |-> preqs, other |-> Tail(oth)]
    ELSE [ret |-> None, lane |-> None, path |-> None,
          category |-> cat, product |-> preqs, other |-> oth]

\* variant: the other lane is served before the remaining product lanes
queue_get_next_request_other_first(cat, preqs, keys, oth, pd) ==
    IF Truthy(pd) /\ pd \in DOMAIN preqs /\ preqs[pd] # <<>>
    THEN [ret |-> Head(preqs[pd]), lane |-> "priority", path |-> pd,
          category |-> cat, product |-> [preqs EXCEPT ![pd] = Tail(@)], other |-> oth]
    ELSE IF cat # <<>>
    THEN [ret |-> Head(cat), lane |-> "category", path |-> None,
          category |-> Tail(cat), product |-> preqs, other |-> oth]
    ELSE IF oth # <<>>
    THEN [ret |-> Head(oth), lane |-> "other", path |-> None,
          category |-> cat, product |-> preqs, other |-> Tail(oth)]
    ELSE IF FallbackLane(preqs, keys, pd) # None
    THEN LET d == FallbackLane(preqs, keys, pd) IN
         [ret |-> Head(preqs[d]), lane |-> "fallback", path |-> d,
          category |-> cat, product |-> [preqs EXCEPT ![d] = Tail(@)], other |-> oth]
    ELSE [ret |-> None, lane |-> None, path |-> None,
          category |-> cat, product |-> preqs, other |-> oth]

\* variant: the preferred product lane is served from its tail
queue_get_next_request_lifo(cat, preqs, keys, oth, pd) ==
    IF Truthy(pd) /\ pd \in DOMAIN preqs /\ preqs[pd] # <<>>
    THEN [ret |-> preqs[pd][Len(preqs[pd])], lane |-> "priority", path |-> pd,
          category |-> cat,
          product |-> [preqs EXCEPT ![pd] = SubSeq(@, 1, Len(@) - 1)],
          other |-> oth]
    ELSE IF cat # <<>>
    THEN [ret |-> Head(cat), lane |-> "category", path |-> None,
          category |-> Tail(cat), product |-> preqs, other |-> oth]
    ELSE IF FallbackLane(preqs, keys, pd) # None
    THEN LET d == FallbackLane(preqs, keys, pd) IN
         [ret |-> Head(preqs[d]), lane |-> "fallback", path |-> d,
          category |-> cat, product |-> [preqs EXCEPT ![d] = Tail(@)], other |-> oth]
    ELSE IF oth # <<>>
    THEN [ret |-> Head(oth), lane |-> "other", path |-> None,
          category |-> cat, product |-> preqs, other |-> Tail(oth)]
    ELSE [ret |-> None, lane |-> None, path |-> None,
          category |-> cat, product |-> preqs, other |-> oth]

\* variant: step 3 is missing, the product lanes of other directories are
\* not served
queue_get_next_request_no_fallback(cat, preqs, keys, oth, pd) ==
    IF Truthy(pd) /\ pd \in DOMAIN preqs /\ preqs[pd] # <<>>
    THEN [ret |-> Head(preqs[pd]), lane |-> "priority", path |-> pd,
          category |-> cat, product |-> [preqs EXCEPT ![pd] = Tail(@)], other |-> oth]
    ELSE IF cat # <<>>
    THEN [ret |-> Head(cat), lane |-> "category", path |-> None,
          category |-> Tail(cat), product |-> preqs, other |-> oth]
    ELSE IF oth # <<>>
    THEN [ret |-> Head(oth), lane |-> "other", path |-> None,
          category |-> cat, product |-> preqs, other |-> Tail(oth)]
    ELSE [ret |-> None, lane |-> None, path |-> None,
          category |-> cat, product |-> preqs, other |-> oth]

\* PriorityRequestQueue.get_next_request, as
\* [ret, lane, path, category, product, other]
queue_get_next_request(cat, preqs, keys, oth, pd) ==
    IF Truthy(pd) /\ pd \in DOMAIN preqs /\ preqs[pd] # <<>>
    THEN [ret |-> Head(preqs[pd]), lane |-> "priority", path |-> pd,
          category |-> cat, product |-> [preqs EXCEPT ![pd] = Tail(@)], other |-> oth]
    ELSE IF cat # <<>>
    THEN [ret |-> Head(cat), lane |-> "category", path |-> None,
          category |-> Tail(cat), product |-> preqs, other |-> oth]
    ELSE IF FallbackLane(preqs, keys, pd) # None
    THEN LET d == FallbackLane(preqs, keys, pd) IN
         [ret |-> Head(preqs[d]), lane |-> "fallback", path |-> d,
          category |-> cat, product |-> [preqs EXCEPT ![d] = Tail(@)], other |-> oth]
    ELSE IF oth # <<>>
    THEN [ret |-> Head(oth), lane |-> "other", path |-> None,
          category |-> cat, product |-> preqs, other |-> Tail(oth)]
    ELSE [ret |-> None, lane |-> None, path |-> None,
          category |-> cat, product |-> preqs, other |-> oth]

\* get_queue_stats
get_queue_stats ==
    LET lens == [p \in DOMAIN product_requests |-> Len(product_requests[p])]
        totalProducts == SumOver(lens, DOMAIN product_requests)
    IN  [category_requests |-> Len(category_requests),
         product_requests_by_directory |-> lens,
         total_product_requests |-> totalProducts,
         other_requests |-> Len(other_requests),
         total_requests |-> Len(category_requests) + totalProducts + Len(other_requests)]

\* ---------------------------------------------------------------- actions
\* one more call, while the budget of calls lasts
Tick == ops < MaxOps /\ ops' = ops + 1

\* the history of rejected proposals after add_* rejected url
Reproposed(url) ==
    IF \E i \in 1..Len(returned) :
          request_fingerprint(returned[i]) = request_fingerprint(url)
    THEN reproposed \cup {request_fingerprint(url)}
    ELSE reproposed

\* DirectoryPriorityScheduler.discover_category
DiscoverCategory(path, lvl) ==
    /\ Tick
    /\ directories' = add_directory(directories, path, lvl)
    /\ dirOrder' = add_directory_order(directories, dirOrder, path)
    /\ stats' = add_directory_stats(directories, stats, path)
    /\ UNCHANGED <<directory_products, completed_directories, active_directories,
                   discovered_products, completed_products, failed_products,
                   queueVars, schedVars, returned, admitted, reproposed, reportCalls,
                   ignored>>

\* DirectoryTracker.add_product_to_directory on the unprimed tracker state
TrackProduct(path, url) ==
    /\ directories' = add_directory(directories, path, 1)
    /\ dirOrder' = add_directory_order(directories, dirOrder, path)
    /\ directory_products' = join_directory(directory_products, path, url)
    /\ discovered_products' = assign_owner(discovered_products, path, url)
    /\ stats' = [add_directory_stats(directories, stats, path)
                    EXCEPT !.products_discovered = @ + 1]
    /\ UNCHANGED <<completed_directories, active_directories, completed_products,
                   failed_products>>

\* DirectoryPriorityScheduler.discover_product
DiscoverProduct(url, path) ==
    /\ Tick
    /\ TrackProduct(path, url)
    /\ UNCHANGED <<queueVars, schedVars, returned, admitted, reproposed, reportCalls,
                   ignored>>

\* DirectoryPriorityScheduler.add_category_request
AddCategoryRequest(url) ==
    /\ Tick
    /\ IF already_seen(seen_requests, url)
       THEN /\ reproposed' = Reproposed(url)
            /\ UNCHANGED <<queueVars, admitted>>
       ELSE /\ seen_requests' = remember(seen_requests, url)
            /\ category_requests' = Append(category_requests, url)
            /\ admitted' = Append(admitted, url)
            /\ UNCHANGED reproposed
            /\ UNCHANGED <<product_requests, productKeys, other_requests>>
    /\ UNCHANGED <<trackerVars, schedVars, returned, reportCalls, ignored>>

\* DirectoryPriorityScheduler.add_product_request
AddProductRequest(url, path) ==
    /\ Tick
    /\ TrackProduct(path, url)
    /\ IF already_seen(seen_requests, url)
       THEN /\ reproposed' = Reproposed(url)
            /\ UNCHANGED <<queueVars, admitted>>
       ELSE /\ seen_requests' = remember(seen_requests, url)
            /\ product_requests' = append_product(product_requests, path, url)
            /\ productKeys' = append_key(product_requests, productKeys, path)
            /\ admitted' = Append(admitted, url)
            /\ UNCHANGED reproposed
            /\ UNCHANGED <<category_requests, other_requests>>
    /\ UNCHANGED <<schedVars, returned, reportCalls, ignored>>

\* PriorityRequestQueue.add_other_request of the scheduler's request_queue
AddOtherRequest(url) ==
    /\ Tick
    /\ IF already_seen(seen_requests, url)
       THEN /\ reproposed' = Reproposed(url)
            /\ UNCHANGED <<queueVars, admitted>>
       ELSE /\ seen_requests' = remember(seen_requests, url)
            /\ other_requests' = Append(other_requests, url)
            /\ admitted' = Append(admitted, url)
            /\ UNCHANGED reproposed
            /\ UNCHANGED <<category_requests, product_requests, productKeys>>
    /\ UNCHANGED <<trackerVars, schedVars, returned, reportCalls, ignored>>

\* variant: a completed current directory is not dropped
update_priority_directory_keep ==
    IF ~Truthy(current_priority_directory)
    THEN get_next_priority_directory
    ELSE {[ret |-> current_priority_directory, active |-> active_directories,
           dirs |-> directories]}

\* _update_priority_directory: the possible outcomes, as [ret, active, dirs]
update_priority_directory ==
    LET cur == IF Truthy(current_priority_directory)
                  /\ is_directory_completed(current_priority_directory)
               THEN None ELSE current_priority_directory
    IN  IF ~Truthy(cur)
        THEN get_next_priority_directory
        ELSE {[ret |-> cur, active |-> active_directories, dirs |-> directories]}

\* variant: the priority directory is not passed to the queue
dequeue_preference_none(enabled, cur) == None

\* the priority_directory argument get_next_request passes to the queue
dequeue_preference(enabled, cur) == IF enabled THEN cur ELSE None

\* variant: the priority directory is updated in disabled mode too
scheduler_get_next_request_always_update ==
    /\ \E u \in update_priority_directory :
         LET pd == dequeue_preference(scheduler_enabled, u.ret)
             q == queue_get_next_request(category_requests, product_requests,
                                         productKeys, other_requests, pd)
         IN  /\ current_priority_directory' = u.ret
             /\ active_directories' = u.active
             /\ directories' = u.dirs
             /\ category_requests' = q.category
             /\ product_requests' = q.product
             /\ other_requests' = q.other
             /\ returned' = IF q.ret = None THEN returned ELSE Append(returned, q.ret)
    /\ UNCHANGED <<dirOrder, directory_products, completed_directories,
                   discovered_products, completed_products, failed_products,
                   stats, productKeys, seen_requests, scheduler_enabled, admitted,
                   reproposed, reportCalls, ignored>>

\* the body of DirectoryPriorityScheduler.get_next_request
scheduler_get_next_request ==
    /\ \E u \in (IF scheduler_enabled
                 THEN update_priority_directory
                 ELSE {[ret |-> current_priority_directory,
                        active |-> active_directories, dirs |-> directories]}) :
         LET pd == dequeue_preference(scheduler_enabled, u.ret)
             q == queue_get_next_request(category_requests, product_requests,
                                         productKeys, other_requests, pd)
         IN  /\ current_priority_directory' = u.ret
             /\ active_directories' = u.active
             /\ directories' = u.dirs
             /\ category_requests' = q.category
             /\ product_requests' = q.product
             /\ other_requests' = q.other
             /\ returned' = IF q.ret = None THEN returned ELSE Append(returned, q.ret)
    /\ UNCHANGED <<dirOrder, directory_products, completed_directories,
                   discovered_products, completed_products, failed_products,
                   stats, productKeys, seen_requests, scheduler_enabled, admitted,
                   reproposed, reportCalls, ignored>>

\* DirectoryPriorityScheduler.get_next_request, one of the counted calls
GetNextRequest == Tick /\ scheduler_get_next_request

\* DirectoryTracker.get_next_priority_directory called on the scheduler's tracker
NextPriorityDirectory ==
    /\ Tick
    /\ \E r \in get_next_priority_directory :
         /\ active_directories' = r.active
         /\ directories' = r.dirs
    /\ UNCHANGED <<dirOrder, directory_products, completed_directories,
                   discovered_products, completed_products, failed_products,
                   stats, queueVars, schedVars, returned, admitted, reproposed,
                   reportCalls, ignored>>

\* the body of DirectoryPriorityScheduler.mark_product_completed
mark_product_completed(url) ==
    /\ IF owner_of(discovered_products, url) # None
      THEN LET path == owner_of(discovered_products, url)
             dirs1 == count_completed(directories, path)
             st1 == [stats EXCEPT !.products_completed = @ + 1]
             c == check_directory_completion(dirs1, completed_directories,
                      active_directories, directory_products, failed_products,
                      discovered_products, st1, path)
         IN  /\ completed_products' = completed_products \cup {url}
             /\ directories' = c.dirs
             /\ completed_directories' = c.completed
             /\ active_directories' = c.active
             /\ stats' = c.stats
             /\ reportCalls' = [reportCalls EXCEPT ![url] = @ + 1]
             /\ UNCHANGED <<dirOrder, directory_products, discovered_products,
                            failed_products, queueVars, schedVars, returned,
                            admitted, reproposed, ignored>>
      ELSE /\ ignored' = TRUE
           /\ UNCHANGED <<trackerVars, queueVars, schedVars, returned, admitted,
                          reproposed, reportCalls>>

\* DirectoryPriorityScheduler.mark_product_completed, one of the counted calls
MarkProductCompleted(url) == Tick /\ mark_product_completed(url)

\* the body of DirectoryPriorityScheduler.mark_product_failed
mark_product_failed(url) ==
    /\ IF owner_of(discovered_products, url) # None
      THEN LET path == owner_of(discovered_products, url)
             failed1 == record_failed(failed_products, url)
             st1 == [stats EXCEPT !.products_failed = @ + 1]
             c == check_directory_completion(directories, completed_directories,
                      active_directories, directory_products, failed1,
                      discovered_products, st1, path)
         IN  /\ failed_products' = failed1
             /\ directories' = c.dirs
             /\ completed_directories' = c.completed
             /\ active_directories' = c.active
             /\ stats' = c.stats
             /\ reportCalls' = [reportCalls EXCEPT ![url] = @ + 1]
             /\ UNCHANGED <<dirOrder, directory_products, discovered_products,
                            completed_products, queueVars, schedVars, returned,
                            admitted, reproposed, ignored>>
      ELSE /\ ignored' = TRUE
           /\ UNCHANGED <<trackerVars, queueVars, schedVars, returned, admitted,
                          reproposed, reportCalls>>

\* DirectoryPriorityScheduler.mark_product_failed, one of the counted calls
MarkProductFailed(url) == Tick /\ mark_product_failed(url)

\* DirectoryPriorityScheduler.enable_scheduler
EnableScheduler ==
    /\ Tick
    /\ scheduler_enabled' = TRUE
    /\ UNCHANGED <<trackerVars, queueVars, current_priority_directory, returned,
                   admitted, reproposed, reportCalls, ignored>>

\* variant: disabling also forgets the current priority directory
DisableScheduler_reset ==
    /\ Tick
    /\ scheduler_enabled' = FALSE
    /\ current_priority_directory' = None
    /\ UNCHANGED <<trackerVars, queueVars, returned, admitted, reproposed,
                   reportCalls, ignored>>

\* DirectoryPriorityScheduler.disable_scheduler
DisableScheduler ==
    /\ Tick
    /\ scheduler_enabled' = FALSE
    /\ UNCHANGED <<trackerVars, queueVars, current_priority_directory, returned,
                   admitted, reproposed, reportCalls, ignored>>

\* DirectoryPriorityScheduler.__init__
Init ==
    /\ directories = <<>>
    /\ dirOrder = <<>>
    /\ directory_products = [p \in Paths |-> {}]
    /\ completed_directories = {}
    /\ active_directories = {}
    /\ discovered_products = [u \in Urls |-> None]
    /\ completed_products = {}
    /\ failed_products = {}
    /\ stats = [directories_discovered |-> 0, directories_completed |-> 0,
                products_discovered |-> 0, products_completed |-> 0,
                products_failed |-> 0]
    /\ category_requests = <<>>
    /\ product_requests = <<>>
    /\ productKeys = <<>>
    /\ other_requests = <<>>
    /\ seen_requests = {}
    /\ current_priority_directory = None
    /\ scheduler_enabled = TRUE
    /\ returned = <<>>
    /\ admitted = <<>>
    /\ reproposed = {}
    /\ reportCalls = [u \in Urls |-> 0]
    /\ ignored = FALSE
    /\ ops = 0

\* the directory paths a call can name: the two paths are interchangeable, so
\* the first directory a crawl registers is called "/a"
PathChoices == IF Registered = {} THEN {"/a"} ELSE Paths

\* the URLs a call can name: "p1" and "p1#f" are interchangeable, so the first
\* of the two a crawl discovers or enqueues is called "p1"
UrlChoices ==
    IF discovered_products["p1"] # None \/ (\E i \in 1..Len(admitted) : admitted[i] = "p1")
    THEN Urls ELSE Urls \ {"p1#f"}

Next ==
    \/ \E path \in PathChoices, lvl \in Levels : DiscoverCategory(path, lvl)
    \/ \E url \in UrlChoices, path \in PathChoices : DiscoverProduct(url, path)
    \/ \E url \in UrlChoices : AddCategoryRequest(url)
    \/ \E url \in UrlChoices, path \in PathChoices : AddProductRequest(url, path)
    \/ \E url \in UrlChoices : AddOtherRequest(url)
    \/ GetNextRequest
    \/ NextPriorityDirectory
    \/ \E url \in UrlChoices : MarkProductCompleted(url)
    \/ \E url \in UrlChoices : MarkProductFailed(url)
    \/ EnableScheduler
    \/ DisableScheduler

Spec == Init /\ [][Next]_vars

\* a batch crawl in priority mode: directories and work are registered and
\* enqueued first, then the queue is drained and outcomes are reported
\* no get_next_request has selected a directory or handed out a request yet
\* (a call that did neither left the scheduler as it found it)
Unstarted ==
    /\ current_priority_directory = None
    /\ active_directories = {}
    /\ returned = <<>>

BatchDiscoverCategory(path, lvl) == Unstarted /\ DiscoverCategory(path, lvl)
BatchAddProductRequest(url, path) == Unstarted /\ AddProductRequest(url, path)
BatchAddCategoryRequest(url) == Unstarted /\ AddCategoryRequest(url)

NextBatch ==
    \/ \E path \in PathChoices, lvl \in Levels : BatchDiscoverCategory(path, lvl)
    \/ \E url \in UrlChoices, path \in PathChoices : BatchAddProductRequest(url, path)
    \/ \E url \in UrlChoices : BatchAddCategoryRequest(url)
    \/ GetNextRequest
    \/ \E url \in UrlChoices : MarkProductCompleted(url)
    \/ \E url \in UrlChoices : MarkProductFailed(url)

SpecBatch == Init /\ [][NextBatch]_vars

\* ------------------------------------------------------ claim vocabulary
Range(seq) == {seq[i] : i \in 1..Len(seq)}

Level(d) == directories[d].level

\* get_next_request handed out the head of directory d's product lane
ServedFromLane(d) ==
    /\ d \in DOMAIN product_requests
    /\ Len(returned') = Len(returned) + 1
    /\ Len(product_requests'[d]) < Len(product_requests[d])

\* a get_next_request call made in priority mode
EnabledNextStep == scheduler_enabled /\ GetNextRequest

\* C1: in priority mode, with all product work enqueued before the first
\* get_next_request, no product of a directory B is handed out while a
\* directory A of lower level is not yet completed.
C1_CompletionBeforeAdvancing ==
    [][\A A \in Registered, B \in Registered :
          ( /\ Level(A) < Level(B)
            /\ directory_products[A] # {}
            /\ directory_products[A] \subseteq Range(admitted)
            /\ directory_products[A] \cap directory_products[B] = {}
            /\ ServedFromLane(B) )
          => A \in completed_directories]_vars

\* ---------------------------------------------------------------- C2
\* C2: every fingerprint is admitted at most once, whatever lane or
\* directory later proposals target, and no fingerprint is handed out by
\* get_next_request twice.
C2_AtMostOnceAdmission ==
    /\ \A i \in 1..Len(admitted), j \in 1..Len(admitted) :
          i # j => request_fingerprint(admitted[i]) # request_fingerprint(admitted[j])
    /\ \A i \in 1..Len(returned), j \in 1..Len(returned) :
          i # j => request_fingerprint(returned[i]) # request_fingerprint(returned[j])

\* a fingerprint was proposed again and rejected, and its first copy has been
\* handed out and reported
C2_Witness ==
    \E v \in Range(returned) :
        /\ request_fingerprint(v) \in reproposed
        /\ v \in Range(admitted)
        /\ reportCalls[v] > 0

\* ---------------------------------------------------------------- C3
CompletedIn(dirs, d) == d \in DOMAIN dirs /\ dirs[d].status = "completed"

TotalIn(prods, d) == Cardinality(prods[d])

\* accepted reports that reference a product of d
CallsIn(calls, prods, d) == SumOver(calls, prods[d])

\* the products of d belong to no other directory and are distinct requests
Exclusive(d) ==
    /\ \A u \in directory_products[d] : \A e \in Paths \ {d} : u \notin directory_products[e]
    /\ \A u \in directory_products[d], v \in directory_products[d] :
          u # v => request_fingerprint(u) # request_fingerprint(v)

\* C3 as stated, for a directory of distinct products, shared with no other
\* directory and reported at most once each: with N products it is
\* never Completed with fewer than N reports referencing its products, and it
\* is Completed once N such reports have been made.
C3_CompletionGate ==
    \A d \in Registered :
        ( /\ TotalIn(directory_products, d) > 0
          /\ Exclusive(d)
          /\ \A u \in directory_products[d] : reportCalls[u] <= 1 ) =>
            /\ CompletedIn(directories, d) =>
                  CallsIn(reportCalls, directory_products, d) >= TotalIn(directory_products, d)
            /\ CallsIn(reportCalls, directory_products, d) >= TotalIn(directory_products, d) =>
                  CompletedIn(directories, d)

\* C3 amended: a directory becomes Completed only by an accepted report, at
\* which at least N reports referencing its N > 0 products have been made;
\* and it is Completed once each of its products, all distinct and none of
\* them shared with another directory, has been reported exactly once.
C3_CompletionGateAmended ==
    /\ [][\A d \in DOMAIN directories' :
            (CompletedIn(directories', d) /\ ~CompletedIn(directories, d)) =>
                /\ SumOver(reportCalls', Urls) = SumOver(reportCalls, Urls) + 1
                /\ TotalIn(directory_products', d) > 0
                /\ CallsIn(reportCalls', directory_products', d)
                      >= TotalIn(directory_products', d)]_vars
    /\ [](\A d \in Registered :
            ( /\ TotalIn(directory_products, d) > 0
              /\ Exclusive(d)
              /\ \A u \in directory_products[d] : reportCalls[u] = 1 )
            => CompletedIn(directories, d))

\* a directory of two products completed by one success and one failure
C3_Witness ==
    \E d \in Registered :
        /\ CompletedIn(directories, d)
        /\ TotalIn(directory_products, d) = 2
        /\ \E u \in directory_products[d], v \in directory_products[d] :
              /\ u # v
              /\ u \in completed_products /\ reportCalls[u] = 1
              /\ v \in failed_products /\ reportCalls[v] = 1

\* ---------------------------------------------------------------- C4
\* completedCount + failedCount >= totalDiscoveredProducts > 0
CondIn(dirs, prods, failed, owner, d) ==
    LET total == Cardinality(prods[d]) IN
        /\ dirs[d].products_completed + Cardinality({u \in failed : owner[u] = d}) >= total
        /\ total > 0

\* C4 as stated, for a directory of distinct products shared with no other
\* directory:
\* in every state it is Completed iff
\* completedCount + failedCount >= totalDiscoveredProducts > 0.
C4_CompletionInvariant ==
    \A d \in Registered :
        Exclusive(d) =>
            ( CompletedIn(directories, d)
                <=> CondIn(directories, directory_products, failed_products,
                           discovered_products, d) )

\* C4 amended: the condition is evaluated only by an accepted report credited
\* to the directory: after such a report the directory is Completed iff it
\* was Completed before or the condition holds then; no other call changes
\* whether a directory is Completed.
C4_CompletionInvariantAmended ==
    [][\A d \in DOMAIN directories' :
          LET credited == \E u \in Urls : /\ discovered_products[u] = d
                                          /\ reportCalls'[u] = reportCalls[u] + 1
          IN  CompletedIn(directories', d) <=>
                \/ CompletedIn(directories, d)
                \/ /\ credited
                   /\ CondIn(directories', directory_products', failed_products',
                             discovered_products', d)]_vars

\* a directory completed by the failure report of its only product
C4_Witness ==
    \E d \in Registered :
        /\ CompletedIn(directories, d)
        /\ TotalIn(directory_products, d) = 1
        /\ directories[d].products_completed = 0
        /\ \E u \in failed_products : discovered_products[u] = d

\* ---------------------------------------------------------------- C5
\* C5: completionRate lies in [0,1], i.e. completed + failed <= total and
\* remaining >= 0, for every directory in every state.
C5_CompletionRateBound ==
    \A d \in Registered :
        LET pr == get_directory_progress(d) IN
            /\ 0 <= pr.rate_num
            /\ pr.rate_num <= pr.rate_den
            /\ pr.completed_products + pr.failed_products <= pr.total_products
            /\ pr.remaining_products >= 0

\* ---------------------------------------------------------------- C6
\* p.completion_rate <= q.completion_rate
RateLeq(p, q) == p.rate_num * q.rate_den <= q.rate_num * p.rate_den

\* C6 as stated, for a directory of distinct products shared with no other
\* directory: its completionRate never decreases from one state to the next,
\* whatever call is made.
C6_RateMonotonic ==
    [][\A d \in Registered :
          Exclusive(d)' =>
              RateLeq(get_directory_progress(d), get_directory_progress(d)')]_vars

\* C6 amended: completionRate never decreases in a call that leaves product
\* membership and ownership as they were (every report, get_next_request,
\* directory discovery, category or other work, enable, disable); only the
\* discovery of a product can lower it.  (A step that also leaves the
\* completed count of d and the failure set as they were leaves the rate of d
\* as it was; the first disjunct only spares the computation.)
C6_RateMonotonicAmended ==
    [][(/\ directory_products' = directory_products
        /\ discovered_products' = discovered_products)
       => \A d \in Registered :
             \/ /\ directories'[d].products_completed = directories[d].products_completed
                /\ failed_products' = failed_products
             \/ RateLeq(get_directory_progress(d), get_directory_progress(d)')]_vars

\* a directory part of whose products have been reported
C6_Witness ==
    \E d \in Registered :
        LET pr == get_directory_progress(d) IN
            /\ 0 < pr.rate_num
            /\ pr.rate_num < pr.rate_den
            /\ pr.failed_products > 0

\* ---------------------------------------------------------------- C7
Rank(status) == IF status = "discovered" THEN 0 ELSE IF status = "active" THEN 1 ELSE 2

\* C7: the status of a directory only moves forward in the order
\* discovered, active, completed.
C7_MonotonicStatus ==
    [][\A d \in Registered :
          Rank(directories'[d].status) >= Rank(directories[d].status)]_vars

\* a directory that was selected as priority directory and then completed,
\* next to one that is still to be selected
C7_Witness ==
    \E d \in Registered, e \in Registered :
        /\ CompletedIn(directories, d)
        /\ current_priority_directory = d
        /\ directories[e].status = "discovered"

\* ---------------------------------------------------------------- C8
\* C8: a Completed directory stays Completed whatever is discovered for it
\* later, and after every get_next_request in priority mode the current
\* priority directory is not a Completed one.
C8_NoReselection ==
    [][/\ \A d \in Registered :
             CompletedIn(directories, d) =>
                 CompletedIn(directories', d) /\ d \in completed_directories'
       /\ EnabledNextStep =>
             \/ current_priority_directory' = None
             \/ /\ current_priority_directory' \notin completed_directories'
                /\ ~CompletedIn(directories', current_priority_directory')]_vars

\* a product was discovered for a Completed directory and get_next_request
\* then ran in priority mode without selecting that directory
C8_Witness ==
    \E d \in Registered :
        /\ CompletedIn(directories, d)
        /\ TotalIn(directory_products, d) >
              directories[d].products_completed
                + failed_count(failed_products, discovered_products, d)
        /\ scheduler_enabled /\ returned # <<>>
        /\ current_priority_directory = None

\* ---------------------------------------------------------------- C9
IsLowestIn(dirs, order, cdirs, d) ==
    /\ d \in DOMAIN dirs \ cdirs
    /\ \A q \in DOMAIN dirs \ cdirs :
          \/ dirs[d].level < dirs[q].level
          \/ dirs[d].level = dirs[q].level /\ IndexOf(order, d) <= IndexOf(order, q)

\* C9 as stated: after a get_next_request in priority mode the current
\* priority directory, when not none, is the lowest-level non-completed
\* directory, the earliest discovered one on a tie.
C9_PriorityIsMinimum ==
    [][EnabledNextStep =>
          \/ current_priority_directory' = None
          \/ IsLowestIn(directories', dirOrder', completed_directories',
                        current_priority_directory')]_vars

\* C9 amended: a directory is promoted to Active only when it is the
\* lowest-level (earliest on a tie) non-completed directory at that moment,
\* and after a get_next_request in priority mode the current priority
\* directory, when not none, is such an Active, non-completed directory; it is
\* kept when a lower-level directory is discovered later.
C9_PriorityIsMinimumAmended ==
    [][/\ \A d \in active_directories' \ active_directories :
             IsLowestIn(directories, dirOrder, completed_directories, d)
       /\ EnabledNextStep =>
             \/ current_priority_directory' = None
             \/ /\ current_priority_directory' \in active_directories'
                /\ current_priority_directory' \notin completed_directories']_vars

\* a lower-level directory was discovered after the current one was selected,
\* and get_next_request has since served a product of the newcomer
C9_Witness ==
    /\ current_priority_directory = "/a"
    /\ dirOrder = <<"/a", "/b">>
    /\ directories["/b"].level < directories["/a"].level
    /\ "/b" \notin completed_directories
    /\ "/b" \in DOMAIN product_requests
    /\ product_requests["/b"] = <<>>
    /\ returned # <<>>

\* --------------------------------------------------------------- C10
\* C10: a directory selected as priority directory stays the one returned by
\* get_next_priority_directory and the scheduler's current priority
\* directory until it is Completed.
C10_StickyPriority ==
    /\ [](\A D \in active_directories \ completed_directories :
            \A r \in get_next_priority_directory : r.ret = D)
    /\ [][\A D \in Registered :
            (current_priority_directory = D /\ D \notin completed_directories')
                => current_priority_directory' = D]_vars

\* the selected directory is still current after a lower-level directory with
\* products was discovered and get_next_request ran again
C10_Witness ==
    /\ current_priority_directory = "/a"
    /\ active_directories = {"/a"}
    /\ dirOrder = <<"/a", "/b">>
    /\ directories["/b"].level < directories["/a"].level
    /\ "/b" \notin completed_directories
    /\ returned # <<>>
    /\ Range(returned) \subseteq directory_products["/b"]

\* --------------------------------------------------------------- C11
\* no directory is Active and not Completed
NoLiveActive == \A p \in active_directories : p \in completed_directories

AllCompleted == Registered \subseteq completed_directories

\* C11: when no Active non-completed directory exists,
\* get_next_priority_directory promotes to Active and returns the
\* non-completed directory of smallest level, the earliest discovered one on
\* a tie, leaving the other directories as they were; it returns none exactly
\* when every registered directory is Completed or none is registered; an
\* enabled get_next_request then makes the returned directory current.
C11_CandidateSelection ==
    /\ [](\A r \in get_next_priority_directory :
            /\ r.ret = None <=> AllCompleted
            /\ NoLiveActive =>
                  IF AllCompleted
                  THEN r.active = active_directories /\ r.dirs = directories
                  ELSE /\ IsLowestIn(directories, dirOrder, completed_directories, r.ret)
                       /\ r.active = active_directories \cup {r.ret}
                       /\ r.dirs[r.ret].status = "active"
                       /\ r.dirs[r.ret].level = directories[r.ret].level
                       /\ \A q \in Registered \ {r.ret} : r.dirs[q] = directories[q])
    /\ [][(NoLiveActive /\ (NextPriorityDirectory \/ EnabledNextStep)) =>
            IF AllCompleted
            THEN /\ active_directories' = active_directories
                 /\ directories' = directories
                 /\ EnabledNextStep => current_priority_directory' = None
            ELSE \E d \in Registered :
                    /\ IsLowestIn(directories, dirOrder, completed_directories, d)
                    /\ active_directories' = active_directories \cup {d}
                    /\ directories'[d].status = "active"
                    /\ EnabledNextStep => current_priority_directory' = d]_vars

\* of two directories of equal level the one discovered first was promoted,
\* by get_next_request
C11_Witness ==
    /\ dirOrder = <<"/a", "/b">>
    /\ directories["/a"].level = directories["/b"].level
    /\ active_directories = {"/a"}
    /\ directories["/a"].status = "active"
    /\ directories["/b"].status = "discovered"
    /\ current_priority_directory = "/a"

\* --------------------------------------------------------------- C12
\* the product lane of directory d, empty when no request was admitted for d
Lane(d) == IF d \in DOMAIN product_requests THEN product_requests[d] ELSE <<>>

\* every report made so far names a product that get_next_request had
\* handed out, and no product was reported twice
ReportedAsDequeued ==
    \A u \in Urls : reportCalls[u] <= (IF u \in Range(returned) THEN 1 ELSE 0)

DisabledNextStep == ~scheduler_enabled /\ GetNextRequest

\* the requests waiting in some lane
Queued ==
    Range(category_requests)
        \cup UNION {Range(product_requests[d]) : d \in DOMAIN product_requests}
        \cup Range(other_requests)

\* the position of a queued request in the order of admission
AdmittedAt(x) == IndexOf(admitted, x)

\* the category lane, then the product lanes in the order in which their
\* directories first received an admitted request, then the other lane
LaneRank(x) ==
    IF x \in Range(category_requests) THEN 0
    ELSE IF \E d \in DOMAIN product_requests : x \in Range(product_requests[d])
    THEN IndexOf(productKeys,
                 CHOOSE d \in DOMAIN product_requests : x \in Range(product_requests[d]))
    ELSE Len(productKeys) + 1

\* C13 as stated: with the scheduler disabled get_next_request returns the
\* queued request that was admitted first, whatever its lane or directory.
C13_FifoFallback ==
    [][DisabledNextStep =>
          IF Queued = {} THEN returned' = returned
          ELSE \E x \in Queued :
                  /\ returned' = Append(returned, x)
                  /\ \A y \in Queued : AdmittedAt(x) <= AdmittedAt(y)]_vars

\* C13 amended: with the scheduler disabled get_next_request serves lane by
\* lane, the category lane first, then the product lanes in the order in
\* which their directories first received admitted work, then the other
\* lane, in admission order within a lane and whatever the current priority
\* directory is; exactly the returned request leaves the queue.
C13_FifoFallbackAmended ==
    [][DisabledNextStep =>
          IF Queued = {} THEN returned' = returned /\ Queued' = {}
          ELSE \E x \in Queued :
                  /\ returned' = Append(returned, x)
                  /\ Queued' = Queued \ {x}
                  /\ \A y \in Queued \ {x} :
                        \/ LaneRank(x) < LaneRank(y)
                        \/ /\ LaneRank(x) = LaneRank(y)
                           /\ AdmittedAt(x) < AdmittedAt(y)]_vars

\* two requests were admitted, one of them product work, and with the
\* scheduler disabled they were handed out in the reverse order
C13_Witness ==
    /\ ~scheduler_enabled
    /\ current_priority_directory = None
    /\ completed_directories = {}
    /\ productKeys # <<>>
    /\ Len(admitted) = 2
    /\ returned = <<admitted[2], admitted[1]>>

\* --------------------------------------------------------------- C14
\* the non-empty product lanes other than that of directory pd
OtherLanes(pd) ==
    {d \in DOMAIN product_requests : d # pd /\ product_requests[d] # <<>>}

\* C14: get_next_request, with as preferred directory the current priority
\* directory in priority mode and none when disabled, returns (1) the head
\* of the preferred directory's product lane if it is non-empty, else (2) the
\* head of the category lane, else (3) the head of some other non-empty
\* product lane, else (4) the head of the other lane, else (5) nothing;
\* exactly the returned request is removed and no other lane changes.
C14_DequeueLaneOrder ==
    [][GetNextRequest =>
          LET pd == IF scheduler_enabled THEN current_priority_directory' ELSE None IN
          IF Lane(pd) # <<>>
          THEN /\ returned' = Append(returned, Head(Lane(pd)))
               /\ product_requests' = [product_requests EXCEPT ![pd] = Tail(@)]
               /\ UNCHANGED <<category_requests, other_requests>>
          ELSE IF category_requests # <<>>
          THEN /\ returned' = Append(returned, Head(category_requests))
               /\ category_requests' = Tail(category_requests)
               /\ UNCHANGED <<product_requests, other_requests>>
          ELSE IF OtherLanes(pd) # {}
          THEN /\ \E d \in OtherLanes(pd) :
                     /\ returned' = Append(returned, Head(product_requests[d]))
                     /\ product_requests' = [product_requests EXCEPT ![d] = Tail(@)]
               /\ UNCHANGED <<category_requests, other_requests>>
          ELSE IF other_requests # <<>>
          THEN /\ returned' = Append(returned, Head(other_requests))
               /\ other_requests' = Tail(other_requests)
               /\ UNCHANGED <<category_requests, product_requests>>
          ELSE /\ returned' = returned
               /\ UNCHANGED <<category_requests, product_requests, other_requests>>]_vars

\* the product of the priority directory was handed out while a category
\* request admitted before it stays queued
C14_Witness ==
    /\ scheduler_enabled
    /\ Len(admitted) = 2
    /\ category_requests = <<admitted[1]>>
    /\ returned = <<admitted[2]>>
    /\ current_priority_directory \in Registered
    /\ admitted[2] \in directory_products[current_priority_directory]
    /\ product_requests[current_priority_directory] = <<>>

\* --------------------------------------------------------------- C15
\* the number of queued requests of seq with fingerprint fp
CopiesIn(seq, fp) ==
    Cardinality({i \in 1..Len(seq) : request_fingerprint(seq[i]) = fp})

\* the number of queued requests, over all lanes, with fingerprint fp
QueuedCopies(fp) ==
    CopiesIn(category_requests, fp)
        + SumOver([d \in DOMAIN product_requests |-> CopiesIn(product_requests[d], fp)],
                  DOMAIN product_requests)
        + CopiesIn(other_requests, fp)

\* C15: no add_* call returns True for a fingerprint that was admitted
\* before, and a call that neither returns True nor hands out a request,
\* such as the add_* call of a duplicate, leaves every lane, the set of seen
\* fingerprints and all counts of get_queue_stats unchanged; no fingerprint
\* is queued twice.
C15_DuplicateNoOp ==
    /\ [][/\ \A url \in Urls :
               admitted' = Append(admitted, url)
                   => request_fingerprint(url) \notin seen_requests
          /\ (admitted' = admitted /\ returned' = returned) =>
                /\ UNCHANGED queueVars
                /\ get_queue_stats' = get_queue_stats]_vars
    /\ [](\A url \in Urls : QueuedCopies(request_fingerprint(url)) <= 1)

\* a request was proposed again after its first copy had been handed out and
\* was rejected, while another request stays queued
C15_Witness ==
    /\ reproposed # {}
    /\ Len(admitted) = 2
    /\ get_queue_stats.total_requests = 1

\* --------------------------------------------------------------- C16
\* a mark_product_completed or mark_product_failed call for url
ReportStep(url) == MarkProductCompleted(url) \/ MarkProductFailed(url)

\* C16: a report for a product URL that was never registered is not
\* accepted and leaves the directories with their counters and status, the
\* completed and failed sets, the statistics, the progress of every
\* directory, the queue and the current priority directory unchanged.
C16_UnknownReportNoOp ==
    [][\A url \in Urls :
          (discovered_products[url] = None /\ ReportStep(url)) =>
              /\ reportCalls' = reportCalls
              /\ UNCHANGED <<trackerVars, queueVars, schedVars>>
              /\ get_stats' = get_stats
              /\ \A d \in Registered :
                    get_directory_progress(d)' = get_directory_progress(d)]_vars

\* a report named an unknown product while a directory had one of its two
\* products reported
C16_Witness ==
    /\ ignored
    /\ \E d \in Registered :
          /\ TotalIn(directory_products, d) = 2
          /\ directories[d].products_completed = 1
          /\ stats.products_completed = 1
          /\ ~CompletedIn(directories, d)

\* --------------------------------------------------------------- C17
Fingerprints == {request_fingerprint(u) : u \in Urls}

Leaked(u, d) ==
    /\ u \in directory_products[d]
    /\ u \in Range(returned)
    /\ \A v \in Urls :
          request_fingerprint(v) = request_fingerprint(u) => reportCalls[v] = 0

\* C18: while a handed-out product of a directory D that is not Completed
\* stays unreported, no call makes D Completed, and when D is the current
\* priority directory it stays so, whatever other reports are made.
C18_LeakedItemStalls ==
    [][\A d \in Registered, u \in Urls :
          (Leaked(u, d) /\ Leaked(u, d)' /\ d \notin completed_directories) =>
              /\ d \notin completed_directories'
              /\ current_priority_directory = d => current_priority_directory' = d]_vars

\* --------------------------------------------------------------- C19
\* C19: a directory for which no product has been discovered is never
\* Completed, whatever calls are made; and get_next_request returns nothing
\* when nothing is queued, in particular when only such directories are
\* registered, one of which it then makes the priority directory.
C19_EmptyNeverCompletes ==
    /\ [](\A d \in Registered :
            directory_products[d] = {} =>
                /\ d \notin completed_directories
                /\ directories[d].status # "completed")
    /\ [][(GetNextRequest /\ Queued = {}) =>
            /\ returned' = returned
            /\ ( /\ scheduler_enabled
                 /\ Registered # {}
                 /\ \A d \in Registered : directory_products[d] = {} ) =>
                    /\ current_priority_directory' \in Registered
                    /\ completed_directories' = {}]_vars

\* a directory without products was selected as priority directory by a
\* get_next_request that returned nothing, and it stays so while another
\* directory was completed by a report
C19_Witness ==
    \E d \in Registered, e \in Registered :
        /\ directory_products[d] = {}
        /\ current_priority_directory = d
        /\ directories[d].status = "active"
        /\ returned = <<>>
        /\ e \in completed_directories

\* --------------------------------------------------------------- C20
\* C20: in every state a product is a member of the product set of at most
\* one directory, and that directory is the one a report for the product is
\* credited to, also when the product was proposed under two directories.
C20_SingleDirectory ==
    \A u \in Urls, d \in Paths :
        u \in directory_products[d] => owner_of(discovered_products, u) = d

\* --------------------------------------------------------------- C21
\* C21: discover_category for a path that is already registered, whether by
\* discover_category or by the discovery of a product, and with whatever
\* level, changes nothing: the record of every directory (level, status,
\* counters), the discovery order, product membership, the statistics, the
\* progress of every directory, the queue and the scheduler stay as they were.
C21_RegisterIdempotent ==
    [][\A path \in Registered :
          (\E lvl \in Levels : DiscoverCategory(path, lvl)) =>
              /\ directories' = directories
              /\ dirOrder' = dirOrder
              /\ directory_products' = directory_products
              /\ get_stats' = get_stats
              /\ \A d \in Registered :
                    get_directory_progress(d)' = get_directory_progress(d)
              /\ UNCHANGED <<trackerVars, queueVars, schedVars>>]_vars

\* a directory registered at level 2, with one product, was made Active, and
\* one more call was made than those that brought it there: a further
\* discover_category for it leaves this state
C21_Witness ==
    \E d \in Registered :
        /\ directories[d].level = 2
        /\ directories[d].status = "active"
        /\ Cardinality(directory_products[d]) = 1
        /\ stats.directories_discovered = 1
        /\ stats.products_discovered = 1
        /\ admitted = <<>> /\ ~ignored
        /\ ops = 4

\* --------------------------------------------------------------- C22
\* C22: discover_product or add_product_request for a path that is not yet
\* registered registers that path as a new directory, last in discovery
\* order, with level 1, status discovered and no completed product, counts
\* it in directories_discovered, leaves the other directories as they were,
\* and records the product in it.
C22_AutoRegistration ==
    [][\A path \in Paths \ Registered, url \in Urls :
          (DiscoverProduct(url, path) \/ AddProductRequest(url, path)) =>
              /\ DOMAIN directories' = Registered \cup {path}
              /\ directories'[path].level = 1
              /\ directories'[path].status = "discovered"
              /\ directories'[path].products_completed = 0
              /\ \A q \in Registered : directories'[q] = directories[q]
              /\ dirOrder' = Append(dirOrder, path)
              /\ stats'.directories_discovered = stats.directories_discovered + 1
              /\ stats'.products_discovered = stats.products_discovered + 1
              /\ url \in directory_products'[path]
              /\ discovered_products'[url] = path]_vars

\* the first call made was the discovery of a product, for a directory
\* nobody had registered
C22_Witness ==
    \E d \in Registered, u \in Urls :
        /\ ops = 1
        /\ Registered = {d}
        /\ directories[d].level = 1
        /\ directories[d].status = "discovered"
        /\ directory_products[d] = {u}
        /\ discovered_products[u] = d
        /\ stats.directories_discovered = 1

\* --------------------------------------------------------------- C23
\* C23: the current priority directory changes only in a get_next_request
\* made in priority mode; discover_category, discover_product, the add_*
\* calls, the reports, enable_scheduler, disable_scheduler and a
\* get_next_request made with the scheduler disabled leave it as it was.
C23_LazyPriorityUpdate ==
    [][/\ current_priority_directory' # current_priority_directory
             => EnabledNextStep
       /\ DisabledNextStep
             => current_priority_directory' = current_priority_directory]_vars

\* the directory selected by get_next_request was completed by a report
\* while the scheduler was disabled, and it is still the current one
C23_Witness ==
    \E d \in Registered :
        /\ ~scheduler_enabled
        /\ current_priority_directory = d
        /\ d \in completed_directories
        /\ returned # <<>>
        /\ Range(returned) \subseteq directory_products[d]

\* --------------------------------------------------------------- C24
\* the status of directory d differs before and after the step
StatusChanged(d) == directories'[d].status # directories[d].status

\* the step is a report that the registry accepted
AcceptedReport == reportCalls' # reportCalls

\* C24 as stated, for the calls of the scheduler: the status of a directory
\* changes in no call other than an accepted report, in particular not in
\* get_next_request.
C24_OnlyReportsAdvance ==
    [][\A d \in Registered :
          StatusChanged(d) => (AcceptedReport \/ NextPriorityDirectory)]_vars

\* C24 amended: a directory becomes Completed only in an accepted report;
\* the one other change of status is the promotion of a Discovered directory
\* to Active, made by get_next_priority_directory, which a get_next_request
\* in priority mode calls; discover_category, discover_product, the add_*
\* calls, a get_next_request with the scheduler disabled, enable_scheduler
\* and disable_scheduler change no status.
C24_OnlyReportsAdvanceAmended ==
    [][\A d \in Registered :
          StatusChanged(d) =>
              \/ /\ AcceptedReport
                 /\ directories'[d].status = "completed"
              \/ /\ EnabledNextStep \/ NextPriorityDirectory
                 /\ directories[d].status = "discovered"
                 /\ directories'[d].status = "active"]_vars

\* one directory was completed by a report and get_next_request then
\* promoted another one, which is the current priority directory
C24_Witness ==
    \E d \in Registered, e \in Registered :
        /\ CompletedIn(directories, e)
        /\ reportCalls # [u \in Urls |-> 0]
        /\ directories[d].status = "active"
        /\ current_priority_directory = d
        /\ Len(returned) = 1

\* --------------------------------------------------------------- C25
\* C25: discover_product leaves every lane, the set of seen fingerprints and
\* the counts of get_queue_stats unchanged and admits nothing; and an
\* add_product_request for a fingerprint that no add_* call was admitted
\* for, discovered before or not, returns True and appends the request to the
\* lane of its directory.  Both calls record the directory of the product
\* and count one discovery, which is how a step is recognised as one of them.
C25_DiscoverIsBookkeeping ==
    [][\A url \in Urls, path \in Paths :
          ( /\ discovered_products'[url] = path
            /\ stats'.products_discovered = stats.products_discovered + 1 ) =>
             /\ DiscoverProduct(url, path) =>
                   /\ UNCHANGED queueVars
                   /\ admitted' = admitted
                   /\ get_queue_stats' = get_queue_stats
             /\ ( /\ CopiesIn(admitted, request_fingerprint(url)) = 0
                  /\ AddProductRequest(url, path) ) =>
                   /\ admitted' = Append(admitted, url)
                   /\ Lane(path)' = Append(Lane(path), url)]_vars

\* a product discovered for one directory was then enqueued for another
\* directory, and admitted
C25_Witness ==
    \E u \in Urls, d \in Registered, e \in Registered :
        /\ d # e
        /\ ops = 2
        /\ u \in directory_products[d]
        /\ discovered_products[u] = e
        /\ admitted = <<u>>
        /\ Lane(e) = <<u>>
        /\ stats.products_discovered = 2

ScenarioReady ==
    /\ \A d \in Registered :
          /\ directory_products[d] # {}
          /\ directory_products[d] = Range(Lane(d))
    /\ \A d \in Registered, e \in Registered : d # e => Level(d) # Level(e)

\* every request handed out so far has been reported
AllReported == \A u \in Range(returned) : reportCalls[u] = 1

LastReturned == returned[Len(returned)]

\* get_next_request, first called once the scenario is set up, later once
\* the request returned before has been reported
OrderedNext ==
    /\ IF Unstarted THEN ScenarioReady ELSE AllReported
    /\ scheduler_get_next_request
    /\ UNCHANGED ops

\* mark_product_completed for the request returned last
OrderedReport ==
    /\ returned # <<>>
    /\ reportCalls[LastReturned] = 0
    /\ mark_product_completed(LastReturned)
    /\ UNCHANGED ops

NextOrdered ==
    \/ \E path \in PathChoices, lvl \in Levels : BatchDiscoverCategory(path, lvl)
    \/ \E url \in UrlChoices, path \in PathChoices : BatchAddProductRequest(url, path)
    \/ OrderedNext
    \/ OrderedReport

SpecOrdered == Init /\ [][NextOrdered]_vars

\* the directory a product is recorded for
DirectoryOf(u) == discovered_products[u]

\* C27: in such a crawl the products are handed out in the order of
\* non-decreasing level of their directories, and when a product is handed
\* out every directory of lower level is Completed.
C27_LevelOrdered ==
    /\ [](\A i \in 1..Len(returned), j \in 1..Len(returned) :
            i < j => Level(DirectoryOf(returned[i])) <= Level(DirectoryOf(returned[j])))
    /\ [][\A x \in Urls :
            returned' = Append(returned, x) =>
                \A A \in Registered :
                    Level(A) < Level(DirectoryOf(x)) =>
                        /\ A \in completed_directories
                        /\ directories[A].status = "completed"]_vars

\* the product of the level-2 directory was enqueued first and handed out
\* second, after the level-1 directory had been completed
C27_Witness ==
    /\ Len(admitted) = 2 /\ Len(returned) = 2
    /\ returned = <<admitted[2], admitted[1]>>
    /\ Level(DirectoryOf(returned[1])) = 1
    /\ Level(DirectoryOf(returned[2])) = 2
    /\ DirectoryOf(returned[1]) \in completed_directories
    /\ reportCalls[returned[1]] = 1

\* --------------------------------------------------------------- C28
\* a crawl with finitely many discoveries: the budget of calls counts the
\* registrations, the add_* calls and the mode switches; workers pull
\* requests and report every product they were handed exactly once

\* the product is new and its fingerprint unseen, or it is proposed again
\* for the directory it belongs to: every discovered product is enqueued,
\* and under one directory
CrawlAddProductRequest(url, path) ==
    /\ \/ discovered_products[url] = path
       \/ /\ discovered_products[url] = None
          /\ ~already_seen(seen_requests, url)
    /\ AddProductRequest(url, path)

\* category work whose fingerprint is not that of a product
CrawlAddCategoryRequest(url) ==
    /\ \A v \in Urls :
          request_fingerprint(v) = request_fingerprint(url)
              => discovered_products[v] = None
    /\ AddCategoryRequest(url)

\* a worker pulls a request
CrawlNext == scheduler_get_next_request /\ UNCHANGED ops

\* a worker reports the outcome of a product it was handed, once
CrawlReport(url) ==
    /\ url \in Range(returned)
    /\ discovered_products[url] # None
    /\ reportCalls[url] = 0
    /\ mark_product_completed(url) \/ mark_product_failed(url)
    /\ UNCHANGED ops

NextCrawl ==
    \/ \E path \in PathChoices, lvl \in Levels : DiscoverCategory(path, lvl)
    \/ \E url \in UrlChoices, path \in PathChoices : CrawlAddProductRequest(url, path)
    \/ \E url \in UrlChoices : CrawlAddCategoryRequest(url)
    \/ EnableScheduler
    \/ DisableScheduler
    \/ CrawlNext
    \/ \E url \in Urls : CrawlReport(url)

SpecCrawl ==
    /\ Init
    /\ [][NextCrawl]_vars
    /\ WF_vars(CrawlNext)
    /\ WF_vars(\E url \in Urls : CrawlReport(url))

\* nothing is queued and every directory that has a product is Completed
CrawlDone ==
    /\ Queued = {}
    /\ \A d \in Registered :
          directory_products[d] # {} =>
              d \in completed_directories /\ directories[d].status = "completed"

\* C28: in such a crawl, from some moment on nothing is queued and every
\* directory with a product is Completed, so that get_next_request, which
\* returns nothing exactly when nothing is queued, returns nothing from then
\* on.
C28_CrawlTerminates == <>[]CrawlDone

\* a directory of two products, one extracted and one failed, is Completed
\* and the queue is drained, next to a directory without products
C28_Witness ==
    \E d \in Registered, e \in Registered :
        /\ CrawlDone
        /\ Cardinality(directory_products[d]) = 2
        /\ Cardinality(failed_products) = 1
        /\ Cardinality(completed_products) = 1
        /\ Len(returned) = 2
        /\ directory_products[e] = {}
        /\ current_priority_directory = e

\* --------------------------------------------------------------- C29
\* C29: a repeated completed or failed report for a product that has been
\* reported before leaves the completed count, the failed count, the
\* completion rate and the status of the product's directory as they were
\* after the first report.
C29_DuplicateReportNoOp ==
    [][\A u \in Urls :
          (reportCalls[u] >= 1 /\ reportCalls'[u] = reportCalls[u] + 1) =>
              \A d \in Registered :
                  discovered_products[u] = d =>
                      get_directory_progress(d)' = get_directory_progress(d)]_vars

\* --------------------------------------------------------------- C30
\* the product was reported extracted or failed
Terminal(u) == u \in completed_products \/ u \in failed_products

\* C30: a directory does not become Completed while one of its products is
\* pending: at the step that makes it Completed, every product of its set
\* (those it still owns) is in the completed set or in the failed set.
C30_CompletedMeansTerminal ==
    [][\A d \in Registered :
          (d \in completed_directories' /\ d \notin completed_directories) =>
              \A u \in directory_products'[d] :
                  discovered_products'[u] = d => Terminal(u)']_vars

\* --------------------------------------------------------------- C31
\* C31: in every state no product is both in the completed set and in the
\* failed set: a product is pending, completed or failed, never two of them.
C31_ExclusiveTerminalStatus ==
    \A u \in Urls : ~(u \in completed_products /\ u \in failed_products)

\* --------------------------------------------------------------- C32
\* C32: in every state at most one directory is in the active set, no
\* directory is in both the active set and the completed set, and for every
\* registered directory the status field is 'active' exactly when the
\* directory is in the active set and 'completed' exactly when it is in the
\* completed set; both sets hold registered directories only.
C32_OneActiveConsistentSets ==
    /\ Cardinality(active_directories) <= 1
    /\ active_directories \cap completed_directories = {}
    /\ active_directories \subseteq Registered
    /\ completed_directories \subseteq Registered
    /\ \A d \in Registered :
          /\ directories[d].status = "active" <=> d \in active_directories
          /\ directories[d].status = "completed" <=> d \in completed_directories

\* a directory was active and is completed, and get_next_request has made
\* the other directory the active one
C32_Witness ==
    \E d \in Registered, e \in Registered :
        /\ d # e
        /\ completed_directories = {d}
        /\ active_directories = {e}
        /\ current_priority_directory = e
        /\ directories[d].status = "completed"
        /\ directories[e].status = "active"
        /\ Range(returned) \cap directory_products[d] # {}

\* --------------------------------------------------------------- C33
\* C33: in every state the current priority directory is None or a
\* registered directory, and when it is not completed it is the one member
\* of the active set; it names a completed directory only from the report
\* that completed it until the next get_next_request in priority mode: such
\* a call never leaves a completed directory as the current one, and the
\* current directory turns completed only by an accepted report that leaves
\* the choice alone.
C33_CurrentWellFormed ==
    /\ [](current_priority_directory = None
            \/ current_priority_directory \in Registered)
    /\ []((current_priority_directory # None
            /\ current_priority_directory \notin completed_directories)
              => active_directories = {current_priority_directory})
    /\ [][/\ EnabledNextStep =>
                current_priority_directory' \notin completed_directories'
          /\ (current_priority_directory' \in completed_directories'
              /\ current_priority_directory \notin completed_directories) =>
                /\ current_priority_directory' = current_priority_directory
                /\ AcceptedReport]_vars

\* the current priority directory has just been completed, priority mode is
\* on, and another directory waits to be selected
C33_Witness ==
    \E d \in Registered, e \in Registered :
        /\ d # e
        /\ scheduler_enabled
        /\ current_priority_directory = d
        /\ d \in completed_directories
        /\ active_directories = {}
        /\ directories[e].status = "discovered"
        /\ directory_products[d] \subseteq Range(returned)

\* --------------------------------------------------------------- C34
\* C34: in every state total_requests of get_queue_stats is the sum of its
\* category count, its per-directory product counts and its other count,
\* and equals the number of admitted add_* calls minus the number of
\* requests get_next_request handed out; every request handed out was
\* admitted, none was handed out twice, and every admitted request is
\* either still queued or was handed out, never both.
C34_QueueConservation ==
    LET qs == get_queue_stats IN
    /\ qs.total_requests
          = qs.category_requests
              + SumOver(qs.product_requests_by_directory,
                        DOMAIN qs.product_requests_by_directory)
              + qs.other_requests
    /\ qs.total_requests = Len(admitted) - Len(returned)
    /\ qs.total_requests = Cardinality(Queued)
    /\ Range(returned) \subseteq Range(admitted)
    /\ Cardinality(Range(returned)) = Len(returned)
    /\ Range(admitted) = Range(returned) \cup Queued
    /\ Range(returned) \cap Queued = {}

\* two requests were admitted to the lane of one directory; one was handed
\* out and the other is still queued
C34_Witness ==
    \E d \in Registered :
        /\ Len(admitted) = 2
        /\ Len(returned) = 1
        /\ Len(Lane(d)) = 1
        /\ returned[1] = admitted[1]
        /\ Lane(d)[1] = admitted[2]
        /\ get_queue_stats.total_requests = 1

\* --------------------------------------------------------------- C35
\* the contents of the lanes: the category lane, the product lane of each
\* directory and the other lane
LaneContents ==
    {category_requests, other_requests}
        \cup {product_requests[d] : d \in DOMAIN product_requests}

\* C35: of two requests waiting in the same lane, the one admitted later is
\* not handed out by get_next_request while the one admitted first is still
\* waiting, with the scheduler enabled or disabled; each lane holds its
\* requests in the order of their admission.
C35_FifoWithinLane ==
    /\ [][\A lane \in LaneContents :
             \A i \in 1..Len(lane), j \in 1..Len(lane) :
                (AdmittedAt(lane[i]) < AdmittedAt(lane[j])
                 /\ lane[j] \in Range(returned'))
                    => lane[i] \in Range(returned')]_vars
    /\ [](\A lane \in LaneContents :
             \A i \in 1..Len(lane), j \in 1..Len(lane) :
                i < j => AdmittedAt(lane[i]) < AdmittedAt(lane[j]))

\* two products were enqueued for one directory and handed out, first the
\* one that was admitted first
C35_Witness ==
    \E d \in Registered, u \in Urls, v \in Urls :
        /\ u # v
        /\ ops = 4
        /\ directory_products[d] = {u, v}
        /\ admitted = <<u, v>>
        /\ returned = <<u, v>>
        /\ Lane(d) = <<>>

\* --------------------------------------------------------------- C36
\* the position of directory d in the order in which the directories first
\* received an admitted product request
KeyRank(d) == IndexOf(productKeys, d)

\* C36: when the product lane of the preferred directory and the category
\* lane are empty and some other product lane is not, get_next_request
\* hands out the head of the non-empty product lane whose directory was the
\* first to receive an admitted product request, skipping no earlier
\* non-empty lane; that order grows only by a directory whose first product
\* request is admitted.
C36_FallbackLaneOrder ==
    /\ [][GetNextRequest =>
            LET pd == IF scheduler_enabled THEN current_priority_directory'
                      ELSE None
            IN  (Lane(pd) = <<>> /\ category_requests = <<>> /\ OtherLanes(pd) # {}) =>
                   \E d \in OtherLanes(pd) :
                      /\ \A e \in OtherLanes(pd) : KeyRank(d) <= KeyRank(e)
                      /\ returned' = Append(returned, Head(product_requests[d]))
                      /\ product_requests' = [product_requests EXCEPT ![d] = Tail(@)]]_vars
    /\ [][productKeys' # productKeys =>
            \E d \in Paths \ DOMAIN product_requests :
               /\ productKeys' = Append(productKeys, d)
               /\ Len(admitted') = Len(admitted) + 1
               /\ Lane(d)' = <<admitted'[Len(admitted')]>>]_vars
    /\ [](DOMAIN product_requests = Range(productKeys)
           /\ Len(productKeys) = Cardinality(Range(productKeys)))

\* with no preferred directory two product lanes were waiting, and the lane
\* of the directory that was enqueued for first, though registered second,
\* was served
C36_Witness ==
    \E d \in Registered, e \in Registered :
        /\ d # e
        /\ ~scheduler_enabled
        /\ dirOrder = <<e, d>>
        /\ productKeys = <<d, e>>
        /\ Len(returned) = 1
        /\ returned[1] \in directory_products[d]
        /\ Lane(d) = <<>>
        /\ Lane(e) # <<>>

\* --------------------------------------------------------------- C37
\* C37: a get_next_request made while the scheduler is disabled promotes no
\* directory and changes nothing of the tracker, the current priority
\* directory or the flag; enable_scheduler and disable_scheduler change at
\* most the flag: the tracker, every lane, the seen fingerprints, the
\* current priority directory and the requests admitted and handed out so
\* far stay as they were.
C37_DisabledLeavesRegistry ==
    [][/\ DisabledNextStep =>
             /\ UNCHANGED trackerVars
             /\ UNCHANGED schedVars
       /\ (EnableScheduler \/ DisableScheduler) =>
             /\ UNCHANGED <<trackerVars, queueVars>>
             /\ current_priority_directory' = current_priority_directory
             /\ get_queue_stats' = get_queue_stats
             /\ returned' = returned
             /\ admitted' = admitted]_vars

\* the product request of a directory was handed out while the scheduler was
\* disabled: the directory is still only discovered, no directory has been
\* selected, and the scheduler is enabled again
C37_Witness ==
    \E d \in Registered, u \in Urls :
        /\ scheduler_enabled
        /\ ops = 4
        /\ productKeys = <<d>>
        /\ admitted = <<u>>
        /\ returned = <<u>>
        /\ directories[d].status = "discovered"
        /\ current_priority_directory = None
        /\ active_directories = {}

\* --------------------------------------------------------------- C38
\* discover_product, or an add_product_request that the queue rejects, for
\* product url and directory path
Rediscovery(url, path) ==
    \/ DiscoverProduct(url, path)
    \/ (admitted' = admitted /\ AddProductRequest(url, path))

\* C38: discovering a product for a directory whose product set already
\* holds it, by discover_product or by a rejected add_product_request,
\* leaves the total, completed, failed and remaining counts and the
\* completion rate of that directory as they were.
C38_RediscoveryIdempotent ==
    [][\A url \in Urls, path \in Registered :
          ( /\ url \in directory_products[path]
            /\ discovered_products'[url] = path
            /\ Rediscovery(url, path) ) =>
              get_directory_progress(path)' = get_directory_progress(path)]_vars
====
